---- MODULE Spec2Model ----
(***************************************************************************)
(* console_error_panic_hook (src/lib.rs): a panic hook that forwards the   *)
(* panic message to console.error on wasm32 and to stderr elsewhere, and   *)
(* set_once, which installs it through a std::sync::Once.                  *)
(*                                                                         *)
(* The process state is the Once guard SET_HOOK, the process-wide panic    *)
(* hook slot owned by std::panic, the threads calling set_once, a panic in *)
(* flight, and the two sinks.  Text is a sequence of fragments; string     *)
(* concatenation is sequence concatenation.                                *)
(***************************************************************************)
EXTENDS Naturals, Sequences, FiniteSets

\* ---------------------------------------------------------------- bounds
NumThreads  == 2      \* threads that call set_once
MaxCalls    == 2      \* set_once calls per thread
MaxInstalls == 2      \* direct panic::set_hook(Box::new(hook)) calls
MaxCustom   == 1      \* installs of some other party's hook
MaxFaults   == 2      \* panics raised in one run

Threads == 1..NumThreads

\* ------------------------------------------------------------ fault info
NoMessage == "<no message>"
Messages  == {"index out of bounds: the len is 3 but the index is 5", NoMessage}
Locations == {"src/main.rs:4:5"}
PanicInfos == [msg : Messages, loc : Locations]
NoInfo == [msg |-> NoMessage, loc |-> "<none>"]

\* `info.to_string()` / `"{}", info`: std's Display for PanicInfo.  It writes
\* "panicked at ", then the message in quotes followed by ", " when the
\* payload carries one, then the location (which std always supplies).
Render(info) ==
    IF info.msg = NoMessage
    THEN <<"panicked at ", info.loc>>
    ELSE <<"panicked at ", "'", info.msg, "', ", info.loc>>

VARIABLES
    target,          \* "wasm32" or "native": the cfg_if branch compiled in
    once,            \* SET_HOOK: "INCOMPLETE", "RUNNING" or "COMPLETE"
    hookSlot,        \* std::panic's hook: "default", "hook" or "custom"
    pc,              \* pc[t]: where thread t is inside set_once
    calls,           \* calls[t]: set_once calls thread t has begun
    installedAtCall, \* history: a direct install preceded t's current call
    onceRegs,        \* history: set_hook calls made by the call_once closure
    directInstalls,  \* history: direct panic::set_hook(Box::new(hook)) calls
    customInstalls,  \* history: installs of another party's hook
    fault,           \* the panic in flight
    faults,          \* panics raised so far
    stderrOk,        \* whether a write to stderr succeeds
    stderrOut,       \* fragments hook_impl delivered to stderr
    consoleErr,      \* arguments hook_impl passed to console.error
    writeAttempts    \* history: writeln! calls made by hook_impl

vars == <<target, once, hookSlot, pc, calls, installedAtCall, onceRegs,
          directInstalls, customInstalls, fault, faults, stderrOk, stderrOut,
          consoleErr, writeAttempts>>

onceVars  == <<once, pc, calls, installedAtCall, onceRegs>>
sinkVars  == <<stderrOut, consoleErr, writeAttempts>>
faultVars == <<fault, faults>>

NoFault == [phase |-> "none", info |-> NoInfo, by |-> "none", secondary |-> FALSE]

\* The crate has no initializer: nothing touches the hook before a call.
InitHookSlotInstalled == "hook"
InitHookSlot == "default"

Init ==
    /\ target \in {"wasm32", "native"}
    /\ once = "INCOMPLETE"
    /\ hookSlot = InitHookSlot
    /\ pc = [t \in Threads |-> "idle"]
    /\ calls = [t \in Threads |-> 0]
    /\ installedAtCall = [t \in Threads |-> FALSE]
    /\ onceRegs = 0
    /\ directInstalls = 0
    /\ customInstalls = 0
    /\ fault = NoFault
    /\ faults = 0
    /\ stderrOk = TRUE
    /\ stderrOut = <<>>
    /\ consoleErr = <<>>
    /\ writeAttempts = 0

\* panic::set_hook(h): replaces the hook, dropping the previous one.
SetHook(h) == hookSlot' = h


\* ------------------------------------------------------------ Dispatcher
Silent == [stderr |-> <<>>, console |-> <<>>, attempts |-> 0, raised |-> FALSE]

\* What reaches stderr from `writeln!(io::stderr(), "{}", info)`: the rendered
\* text and the newline when the stream takes the write, nothing when the
\* write fails (the first fragment's write already returns Err).
Writeln(info, ok) ==
    IF ok THEN Render(info) \o <<"\n">> ELSE <<>>

\* hook_impl with `.unwrap()` in place of `let _ =`.
HookImplUnwrap(info, ok) ==
    IF target = "wasm32"
    THEN [Silent EXCEPT !.console = <<Render(info)>>]
    ELSE [Silent EXCEPT !.stderr = Writeln(info, ok), !.attempts = 1,
                        !.raised = ~ok]

\* hook_impl that drops the cfg and always writes to stderr as well.
HookImplBothSinks(info, ok) ==
    [Silent EXCEPT !.console = <<Render(info)>>,
                   !.stderr = Writeln(info, ok), !.attempts = 1]

\* hook_impl that prints the message with eprint! semantics (no newline).
HookImplNoNewline(info, ok) ==
    IF target = "wasm32"
    THEN [Silent EXCEPT !.console = <<Render(info)>>]
    ELSE [Silent EXCEPT !.stderr = IF ok THEN Render(info) ELSE <<>>,
                        !.attempts = 1]

\* hook_impl: console.error(info.to_string()) on wasm32, otherwise
\* `let _ = writeln!(io::stderr(), "{}", info)`, the io::Result discarded.
HookImpl(info, ok) ==
    IF target = "wasm32"
    THEN [Silent EXCEPT !.console = <<Render(info)>>]
    ELSE [Silent EXCEPT !.stderr = Writeln(info, ok), !.attempts = 1]

Hook(info, ok) == HookImpl(info, ok)

\* ---------------------------------------------------------- the installers
\* An unguarded install that leaves a hook someone else set alone.
InstallHandlerIfDefault ==
    /\ directInstalls < MaxInstalls
    /\ directInstalls' = directInstalls + 1
    /\ hookSlot' = IF hookSlot = "custom" THEN hookSlot ELSE "hook"
    /\ UNCHANGED <<target, onceVars, customInstalls, faultVars, stderrOk, sinkVars>>

\* An unguarded install that also marks SET_HOOK as done.
InstallHandlerSetsFlag ==
    /\ directInstalls < MaxInstalls
    /\ directInstalls' = directInstalls + 1
    /\ SetHook("hook")
    /\ once' = IF once = "INCOMPLETE" THEN "COMPLETE" ELSE once
    /\ UNCHANGED <<target, pc, calls, installedAtCall, onceRegs, customInstalls,
                   faultVars, stderrOk, sinkVars>>

\* The documented direct install: panic::set_hook(Box::new(hook)).
InstallHandler ==
    /\ directInstalls < MaxInstalls
    /\ directInstalls' = directInstalls + 1
    /\ SetHook("hook")
    /\ UNCHANGED <<target, onceVars, customInstalls, faultVars, stderrOk, sinkVars>>

\* Some other code of the process installs its own hook.
InstallCustom ==
    /\ customInstalls < MaxCustom
    /\ customInstalls' = customInstalls + 1
    /\ SetHook("custom")
    /\ UNCHANGED <<target, onceVars, directInstalls, faultVars, stderrOk, sinkVars>>

\* A thread enters set_once.
Call(t) ==
    /\ pc[t] = "idle"
    /\ calls[t] < MaxCalls
    /\ pc' = [pc EXCEPT ![t] = "call_once"]
    /\ calls' = [calls EXCEPT ![t] = @ + 1]
    /\ installedAtCall' = [installedAtCall EXCEPT ![t] = directInstalls > 0]
    /\ UNCHANGED <<target, once, hookSlot, onceRegs, directInstalls,
                   customInstalls, faultVars, stderrOk, sinkVars>>

\* call_once without the RUNNING state: whoever finds it not COMPLETE runs f.
CallOnceNoExclusion(t) ==
    /\ pc[t] = "call_once"
    /\ IF once = "COMPLETE"
       THEN pc' = [pc EXCEPT ![t] = "ret"] /\ once' = once
       ELSE pc' = [pc EXCEPT ![t] = "closure"] /\ once' = "RUNNING"
    /\ UNCHANGED <<target, hookSlot, calls, installedAtCall, onceRegs,
                   directInstalls, customInstalls, faultVars, stderrOk, sinkVars>>

\* call_once that returns at once when another thread is running f.
CallOnceNoWait(t) ==
    /\ pc[t] = "call_once"
    /\ IF once = "INCOMPLETE"
       THEN pc' = [pc EXCEPT ![t] = "closure"] /\ once' = "RUNNING"
       ELSE pc' = [pc EXCEPT ![t] = "ret"] /\ once' = once
    /\ UNCHANGED <<target, hookSlot, calls, installedAtCall, onceRegs,
                   directInstalls, customInstalls, faultVars, stderrOk, sinkVars>>

\* call_once that runs f on every call made after completion.
CallOnceRepeats(t) ==
    /\ pc[t] = "call_once"
    /\ IF once = "RUNNING"
       THEN pc' = [pc EXCEPT ![t] = "waiting"] /\ once' = once
       ELSE pc' = [pc EXCEPT ![t] = "closure"] /\ once' = "RUNNING"
    /\ UNCHANGED <<target, hookSlot, calls, installedAtCall, onceRegs,
                   directInstalls, customInstalls, faultVars, stderrOk, sinkVars>>

\* SET_HOOK.call_once(f) examines the guard: COMPLETE returns, INCOMPLETE is
\* swapped to RUNNING and this thread runs f, RUNNING parks the thread.
CallOnce(t) ==
    /\ pc[t] = "call_once"
    /\ \/ /\ once = "COMPLETE"
          /\ pc' = [pc EXCEPT ![t] = "ret"]
          /\ once' = once
       \/ /\ once = "INCOMPLETE"
          /\ pc' = [pc EXCEPT ![t] = "closure"]
          /\ once' = "RUNNING"
       \/ /\ once = "RUNNING"
          /\ pc' = [pc EXCEPT ![t] = "waiting"]
          /\ once' = once
    /\ UNCHANGED <<target, hookSlot, calls, installedAtCall, onceRegs,
                   directInstalls, customInstalls, faultVars, stderrOk, sinkVars>>

\* The closure: panic::set_hook(Box::new(hook)).
Closure(t) ==
    /\ pc[t] = "closure"
    /\ SetHook("hook")
    /\ onceRegs' = onceRegs + 1
    /\ pc' = [pc EXCEPT ![t] = "finish"]
    /\ UNCHANGED <<target, once, calls, installedAtCall, directInstalls,
                   customInstalls, faultVars, stderrOk, sinkVars>>

\* A completion that forgets to publish COMPLETE.
FinishStuck(t) ==
    /\ pc[t] = "finish"
    /\ pc' = [pc EXCEPT ![t] = "ret"]
    /\ UNCHANGED <<target, once, hookSlot, calls, installedAtCall, onceRegs,
                   directInstalls, customInstalls, faultVars, stderrOk, sinkVars>>

\* call_once publishes COMPLETE after f returned and unparks the waiters.
Finish(t) ==
    /\ pc[t] = "finish"
    /\ once' = "COMPLETE"
    /\ pc' = [pc EXCEPT ![t] = "ret"]
    /\ UNCHANGED <<target, hookSlot, calls, installedAtCall, onceRegs,
                   directInstalls, customInstalls, faultVars, stderrOk, sinkVars>>

\* A parked thread resumes once the guard is COMPLETE.
Wake(t) ==
    /\ pc[t] = "waiting"
    /\ once = "COMPLETE"
    /\ pc' = [pc EXCEPT ![t] = "ret"]
    /\ UNCHANGED <<target, once, hookSlot, calls, installedAtCall, onceRegs,
                   directInstalls, customInstalls, faultVars, stderrOk, sinkVars>>

\* set_once returns to its caller.
Return(t) ==
    /\ pc[t] = "ret"
    /\ pc' = [pc EXCEPT ![t] = "idle"]
    /\ UNCHANGED <<target, once, hookSlot, calls, installedAtCall, onceRegs,
                   directInstalls, customInstalls, faultVars, stderrOk, sinkVars>>

SetOnce(t) == CallOnce(t) \/ Closure(t) \/ Finish(t) \/ Wake(t) \/ Return(t)

\* --------------------------------------------------------------- faults
\* Some thread of the process panics with payload and location `info`.
Panic(info) ==
    /\ fault.phase = "none"
    /\ faults < MaxFaults
    /\ faults' = faults + 1
    /\ fault' = [NoFault EXCEPT !.phase = "raised", !.info = info]
    /\ UNCHANGED <<target, onceVars, hookSlot, directInstalls, customInstalls,
                   stderrOk, sinkVars>>

\* The runtime calls the installed hook with the PanicInfo.  Only `hook`
\* is this crate's; what the default or another hook prints is not recorded.
Invoke ==
    /\ fault.phase = "raised"
    /\ LET r == IF hookSlot = "hook" THEN Hook(fault.info, stderrOk)
                ELSE Silent
       IN /\ stderrOut' = stderrOut \o r.stderr
          /\ consoleErr' = consoleErr \o r.console
          /\ writeAttempts' = writeAttempts + r.attempts
          /\ fault' = [fault EXCEPT !.phase = "handled", !.by = hookSlot,
                                    !.secondary = r.raised]
    /\ UNCHANGED <<target, onceVars, hookSlot, directInstalls, customInstalls,
                   faults, stderrOk>>

\* The runtime goes on to unwind or abort; the panic is over.
Terminate ==
    /\ fault.phase = "handled"
    /\ fault' = NoFault
    /\ UNCHANGED <<target, onceVars, hookSlot, directInstalls, customInstalls,
                   faults, stderrOk, sinkVars>>

\* stderr stops accepting writes (closed descriptor, broken pipe).
BreakStderr ==
    /\ stderrOk
    /\ stderrOk' = FALSE
    /\ UNCHANGED <<target, onceVars, hookSlot, directInstalls, customInstalls,
                   faultVars, sinkVars>>

\* -------------------------------------------------------- specifications
\* Only set_once callers run: no other installer, no panic.
NextOnce ==
    \/ \E t \in Threads : Call(t)
    \/ \E t \in Threads : CallOnce(t)
    \/ \E t \in Threads : Closure(t)
    \/ \E t \in Threads : Finish(t)
    \/ \E t \in Threads : Wake(t)
    \/ \E t \in Threads : Return(t)

SpecOnce == Init /\ [][NextOnce]_vars

\* set_once callers together with the direct and the foreign installs.
NextInstall ==
    \/ \E t \in Threads : Call(t)
    \/ \E t \in Threads : CallOnce(t)
    \/ \E t \in Threads : Closure(t)
    \/ \E t \in Threads : Finish(t)
    \/ \E t \in Threads : Wake(t)
    \/ \E t \in Threads : Return(t)
    \/ InstallHandler
    \/ InstallCustom

SpecInstall == Init /\ [][NextInstall]_vars

\* Panics and installs, with set_once called from the first thread only.
NextDispatch ==
    \/ Call(1)
    \/ CallOnce(1)
    \/ Closure(1)
    \/ Finish(1)
    \/ Return(1)
    \/ InstallHandler
    \/ InstallCustom
    \/ \E info \in PanicInfos : Panic(info)
    \/ Invoke
    \/ Terminate
    \/ BreakStderr

SpecDispatch == Init /\ [][NextDispatch]_vars

\* The scheduler runs every thread that is inside set_once; nothing obliges
\* a thread to call it.
FairSpecOnce == SpecOnce /\ \A t \in Threads : WF_vars(SetOnce(t))

\* ----------------------------------------------------------------- claims
\* Thread t has returned from a set_once call.
Returned(t) == calls[t] > 1 \/ (calls[t] = 1 /\ pc[t] \in {"ret", "idle"})

\* The runtime hands the panic in flight to the installed hook in this step.
Dispatching == fault.phase = "raised" /\ fault'.phase # "raised"

\* Some thread takes a step of set_once.
SetOnceStep == pc' # pc

\* C1: with only set_once callers running, hook is registered into the panic
\* hook slot at most once, and exactly once as soon as some call has returned.
C1_RegisteredExactlyOnce ==
    /\ onceRegs + directInstalls <= 1
    /\ (\E t \in Threads : Returned(t)) => onceRegs + directInstalls = 1

C1_Witness ==
    /\ \A t \in Threads : pc[t] = "ret" /\ calls[t] = 1
    /\ onceRegs = 1
    /\ hookSlot = "hook"

\* C2: a set_once call is at its return only when SET_HOOK is COMPLETE, the
\* one registration has been made and no thread is still inside the closure.
C2_CompletionBarrier ==
    \A t \in Threads :
        pc[t] = "ret" =>
            /\ once = "COMPLETE"
            /\ onceRegs = 1
            /\ \A u \in Threads : pc[u] \notin {"closure", "finish"}

C2_Witness ==
    \E t, u \in Threads :
        /\ t # u
        /\ pc[t] = "ret" /\ calls[t] = 1
        /\ pc[u] = "ret" /\ calls[u] = 1

\* C3 as stated: a set_once call begun after a direct install never gets to
\* run the registration itself.
C3_NoSecondRegistration ==
    \A t \in Threads : installedAtCall[t] => pc[t] # "finish"

\* C3 amended: the direct install leaves SET_HOOK alone; a set_once call begun
\* after it that finds SET_HOOK INCOMPLETE takes the guard and registers hook
\* once more, and the slot holds hook right after that registration.
C3_DirectInstallLeavesGuard ==
    [][ /\ (directInstalls' # directInstalls => once' = once /\ hookSlot' = "hook")
        /\ \A t \in Threads :
              /\ (installedAtCall[t] /\ pc[t] = "call_once" /\ pc'[t] # pc[t]
                    /\ once = "INCOMPLETE")
                 => (pc'[t] = "closure" /\ once' = "RUNNING")
              /\ (pc[t] = "closure" /\ pc'[t] # pc[t])
                 => (hookSlot' = "hook" /\ onceRegs' = onceRegs + 1) ]_vars

C3_Witness ==
    \E t \in Threads :
        /\ installedAtCall[t] /\ pc[t] = "ret"
        /\ \A u \in Threads : calls[u] = (IF u = t THEN 1 ELSE 0)
        /\ directInstalls = 1 /\ customInstalls = 0
        /\ onceRegs = 1
        /\ hookSlot = "hook"

\* C4: once SET_HOOK is COMPLETE it stays COMPLETE, and no step of any set_once
\* call registers anything or changes the hook slot, whatever the slot holds.
C4_LaterCallsDoNothing ==
    [][ once = "COMPLETE" =>
          /\ once' = "COMPLETE"
          /\ SetOnceStep => (hookSlot' = hookSlot /\ onceRegs' = onceRegs) ]_vars

C4_Witness ==
    \E t \in Threads :
        /\ calls[t] >= 2 /\ pc[t] = "ret"
        /\ once = "COMPLETE" /\ onceRegs = 1
        /\ hookSlot = "custom"

\* C5: a direct install leaves hook in the slot whatever the slot held, and
\* changes nothing else; however many installs were made, a panic that finds
\* hook installed is handed to it once (one console.error call, or one
\* writeln! attempt).
C5_InstallOverwrites ==
    [][ /\ directInstalls' # directInstalls =>
              /\ hookSlot' = "hook"
              /\ UNCHANGED <<once, onceRegs, sinkVars, faultVars>>
        /\ (Dispatching /\ hookSlot = "hook") =>
              /\ fault'.by = "hook"
              /\ Len(consoleErr') + writeAttempts'
                   = Len(consoleErr) + writeAttempts + 1 ]_vars

C5_Witness ==
    /\ directInstalls = 2 /\ customInstalls = 1
    /\ \A t \in Threads : calls[t] = 0
    /\ hookSlot = "hook"
    /\ faults = 1 /\ fault.phase = "handled" /\ fault.by = "hook"
    /\ Len(consoleErr) + writeAttempts = 1

\* C6: while neither installer has been called the slot never holds hook and
\* hook has emitted nothing to stderr or console.error; with no other party
\* installing either, the slot holds the default hook and it is the default
\* hook that handles a panic.
C6_NoImplicitInstall ==
    (directInstalls = 0 /\ \A t \in Threads : calls[t] = 0) =>
        /\ hookSlot # "hook"
        /\ stderrOut = <<>> /\ consoleErr = <<>> /\ writeAttempts = 0
        /\ fault.by # "hook"
        /\ customInstalls = 0 =>
              /\ hookSlot = "default"
              /\ fault.phase = "handled" => fault.by = "default"

C6_Witness ==
    /\ directInstalls = 0 /\ customInstalls = 0
    /\ \A t \in Threads : calls[t] = 0
    /\ fault.phase = "handled" /\ fault.by = "default"

\* C7: on the native target every call of hook returns to the runtime without
\* raising a panic of its own, after one writeln! attempt, leaving SET_HOOK,
\* the slot and the count of panics as they were; when stderr refuses the
\* write nothing is delivered and the runtime proceeds as after a good write.
C7_WriteFailureDiscarded ==
    [][ (Dispatching /\ hookSlot = "hook" /\ target = "native") =>
          /\ fault'.phase = "handled"
          /\ ~fault'.secondary
          /\ fault'.info = fault.info
          /\ writeAttempts' = writeAttempts + 1
          /\ UNCHANGED <<once, onceRegs, hookSlot, faults, consoleErr>>
          /\ ~stderrOk => stderrOut' = stderrOut ]_vars

C7_Witness ==
    /\ target = "native" /\ ~stderrOk
    /\ fault.phase = "handled" /\ fault.by = "hook" /\ ~fault.secondary
    /\ writeAttempts = 1
    /\ stderrOut = <<>>

\* C8: a wasm32 build never writes to stderr and a native build never calls
\* console.error; on wasm32 each panic that finds hook installed adds exactly
\* one console.error call whose argument is the rendered PanicInfo.
C8_WasmConsoleErrorOnce ==
    /\ [](/\ target = "wasm32" => (stderrOut = <<>> /\ writeAttempts = 0)
          /\ target = "native" => consoleErr = <<>>)
    /\ [][ (Dispatching /\ hookSlot = "hook" /\ target = "wasm32") =>
              /\ consoleErr' = Append(consoleErr, Render(fault.info))
              /\ stderrOut' = stderrOut ]_vars

C8_Witness ==
    /\ target = "wasm32"
    /\ fault.phase = "handled" /\ fault.by = "hook"
    /\ faults = 2
    /\ Len(consoleErr) = 2
    /\ \A i \in 1..2 : \E info \in PanicInfos : consoleErr[i] = Render(info)
    /\ stderrOut = <<>>

C10_EveryCallReturns ==
    /\ \A t \in Threads : (pc[t] # "idle") ~> (pc[t] = "idle")
    /\ (once = "RUNNING") ~> (once = "COMPLETE")

C10_Witness ==
    \E t, u \in Threads :
        /\ pc[t] = "ret"
        /\ pc[u] = "waiting"
        /\ once = "COMPLETE"

====
